---- MODULE Spec2Model ----
(***************************************************************************)
(* Model of src/bubble_sim.c: the bubble simulation's physics step, body   *)
(* store, respawn lifecycle and input handling, as run by bubble_sim_app.  *)
(*                                                                         *)
(* Numbers.  The program computes in C float.  Here every float is a       *)
(* fixed-point integer counting 1/Scale (Scale = 100): positions, radii    *)
(* and velocities are in 1/100 pixel (per second), restitution, pop chance *)
(* and inverse mass in 1/100.  Each arithmetic result is rounded to the    *)
(* nearest representable value, as a float operation rounds.  Unit         *)
(* vectors (the collision normal) are carried at 1/Unit.  The random       *)
(* stream is the program's 32-bit linear-congruential generator, bit for   *)
(* bit, its state kept as two 16-bit halves.  Array indices are 1-based:   *)
(* bodies[k] here is bodies[k-1] in the C source.                          *)
(***************************************************************************)
EXTENDS Integers, Sequences, FiniteSets, TLC

VARIABLES
    bodies,          \* app->bodies[0 .. body_count)
    groups,          \* app->groups[0 .. GROUP_COUNT)
    selected_group,  \* app->selected_group
    menu_field,      \* app->menu_field
    hud_visible,     \* app->hud_visible
    rng,             \* app->rng.state, as [hi, lo] 16-bit halves
    running,         \* bubble_sim_app's local `running`
    pc,              \* position in bubble_sim_app's loop
    ticks,           \* number of physics_step calls made so far
    inputs,          \* number of input events dequeued so far
    rng_calls,       \* number of rng_next calls made so far
    last             \* what the last step did (observation only)

vars == <<bodies, groups, selected_group, menu_field, hud_visible, rng,
          running, pc, ticks, inputs, rng_calls, last>>

(***************************************************************************)
(* Program constants                                                       *)
(***************************************************************************)
Scale == 100
Unit == Scale * Scale

SCREEN_W == 128
SCREEN_H == 64
MAX_BODIES == 48
GROUP_COUNT == 3
SPAWN_COOLDOWN_FRAMES == 10
BUBBLE_MAX_COUNT == 64
BUBBLE_MIN_RADIUS == 1 * Scale
BUBBLE_MAX_RADIUS == 32 * Scale
BUBBLE_MIN_SPEED == 25
BUBBLE_MAX_SPEED == 64 * Scale
BUBBLE_MIN_RESTITUTION == 0
BUBBLE_MAX_RESTITUTION == 1 * Scale
BUBBLE_MIN_POP == 0
BUBBLE_MAX_POP == 1 * Scale
ConfigFieldCount == 0
ConfigFieldRadius == 1
ConfigFieldSpeed == 2
ConfigFieldRestitution == 3
ConfigFieldPopChance == 4
ConfigFieldCountEnum == 5

\* WorldBounds set by bubble_sim_app
bounds == [min_x |-> 0, max_x |-> (SCREEN_W - 1) * Scale,
           min_y |-> 0, max_y |-> (SCREEN_H - 1) * Scale]
gravity_y == 0
\* const float dt = 0.03f
LoopDt == 3
\* y_base offset 40.0f, random extra 20.0f, off-top margin 20.0f
SpawnBaseOffset == 40 * Scale
SpawnExtraRange == 20 * Scale
OffTopMargin == 20 * Scale

(***************************************************************************)
(* Fixed-point arithmetic                                                  *)
(***************************************************************************)
Abs(a) == IF a < 0 THEN -a ELSE a

\* a / b for b > 0, rounded to nearest (halves away from zero)
RDiv(a, b) == IF a >= 0 THEN (2 * a + b) \div (2 * b)
                        ELSE -((2 * (-a) + b) \div (2 * b))

\* product of two fixed-point values
FMul(a, b) == RDiv(a * b, Scale)

RECURSIVE SqrtSearch(_, _, _)
SqrtSearch(n, lo, hi) ==
    IF lo >= hi THEN lo
    ELSE LET mid == (lo + hi + 1) \div 2
         IN IF mid * mid <= n THEN SqrtSearch(n, mid, hi)
                              ELSE SqrtSearch(n, lo, mid - 1)

\* sqrtf: n is in 1/Scale^2, the result in 1/Scale, rounded to nearest
Sqrt(n) ==
    LET f == SqrtSearch(n, 0, 46340)
    IN IF n - f * f > f THEN f + 1 ELSE f

ph_len2(x, y) == x * x + y * y

(***************************************************************************)
(* Random stream                                                           *)
(***************************************************************************)
Half == 65536

rng_init(seed_hi, seed_lo) ==
    IF seed_hi = 0 /\ seed_lo = 0 THEN [hi |-> 0, lo |-> 1]
                                  ELSE [hi |-> seed_hi, lo |-> seed_lo]

\* state * 1664525 + 1013904223 (mod 2^32), with
\* 1664525 = 25 * 2^16 + 26125 and 1013904223 = 15470 * 2^16 + 62303
rng_next(r) ==
    LET p0 == r.lo * 26125 + 62303
        p1 == (p0 \div Half) + r.hi * 26125 + r.lo * 25 + 15470
    IN [hi |-> p1 % Half, lo |-> p0 % Half]

\* rng_next(rng) & 0x00FFFFFF: the numerator of rng_next_float01, over 2^24
Float01Num(r) == (r.hi % 256) * Half + r.lo

\* (k / 2^24) * w for 0 <= k < 2^24, rounded to nearest
MulFracPos(k, w) ==
    LET kh == k \div 4096
        kl == k % 4096
    IN (kh * w + ((kl * w + 8388608) \div 4096)) \div 4096

MulFrac(k, w) ==
    IF (k >= 0) = (w >= 0) THEN MulFracPos(Abs(k), Abs(w))
                           ELSE -MulFracPos(Abs(k), Abs(w))

(***************************************************************************)
(* Physics                                                                 *)
(***************************************************************************)
body_is_visible_vertical(b, bnd) ==
    LET top == b.y - b.radius
        bottom == b.y + b.radius
    IN ~(bottom < bnd.min_y \/ top > bnd.max_y)

\* physics_step, loop 1, one body: integrate, horizontal walls, cooldown
IntegrateBody(b, dt, g, bnd) ==
    LET moves == b.inv_mass > 0 /\ ~b.popped
        vy1 == IF moves THEN b.vy + FMul(b.ay + g, dt) ELSE b.vy
        vx1 == IF moves THEN b.vx + FMul(b.ax, dt) ELSE b.vx
        x1 == IF moves THEN b.x + FMul(vx1, dt) ELSE b.x
        y1 == IF moves THEN b.y + FMul(vy1, dt) ELSE b.y
        r == b.radius
        hitMin == x1 - r < bnd.min_x
        hitMax == ~hitMin /\ x1 + r > bnd.max_x
        x2 == IF hitMin THEN bnd.min_x + r
              ELSE IF hitMax THEN bnd.max_x - r ELSE x1
        vx2 == IF hitMin /\ vx1 < 0 THEN FMul(-vx1, b.restitution)
               ELSE IF hitMax /\ vx1 > 0 THEN FMul(-vx1, b.restitution)
               ELSE vx1
        cd == IF b.spawn_cooldown > 0 THEN b.spawn_cooldown - 1
                                      ELSE b.spawn_cooldown
    IN [b EXCEPT !.x = x2, !.y = y1, !.vx = vx2, !.vy = vy1,
                 !.spawn_cooldown = cd]

Integrate(bs, dt, g, bnd) ==
    [k \in 1..Len(bs) |-> IntegrateBody(bs[k], dt, g, bnd)]

\* dist2 <= 0.00001f, and the 0.001f separation substituted for it, for
\* lengths counted in 1/S
TinyDist2(S) == (S * S) \div 100000
TinySep(S) == S \div 1000

\* nx = dx / dist, ny = dy / dist with dist = sqrtf(dx*dx + dy*dy), at 1/Unit.
\* A float quotient is exact to 24 bits whatever the length of (dx, dy); to
\* keep that for short vectors the vector is doubled until its longer
\* component exceeds Unit before the root is taken.
RECURSIVE NormScale(_, _)
NormScale(m, f) == IF m * f > Unit THEN f ELSE NormScale(m, 2 * f)

Normal(dx, dy) ==
    LET m == IF Abs(dx) > Abs(dy) THEN Abs(dx) ELSE Abs(dy)
        f == IF m = 0 THEN 1 ELSE NormScale(m, 1)
        h == Sqrt(ph_len2(dx * f, dy * f))
    IN IF m = 0 THEN [nx |-> Unit, ny |-> 0]
       ELSE [nx |-> RDiv(dx * f * Unit, h), ny |-> RDiv(dy * f * Unit, h)]

\* Mutant of PositionalCorrection: each body takes half of the penetration,
\* whatever the inverse masses
PositionalCorrectionHalves(a, b, S) ==
    LET dx0 == b.x - a.x
        dy0 == b.y - a.y
        r_sum == a.radius + b.radius
        tiny == ph_len2(dx0, dy0) <= TinyDist2(S)
        dx == IF tiny THEN TinySep(S) ELSE dx0
        dy == IF tiny THEN 0 ELSE dy0
        dist2 == ph_len2(dx, dy)
        dist == Sqrt(dist2)
        penetration == r_sum - dist
        nx == Normal(dx, dy).nx
        ny == Normal(dx, dy).ny
        inv_ma == a.inv_mass
        inv_mb == b.inv_mass
        inv_sum == inv_ma + inv_mb
        move == RDiv(penetration, 2)
    IN [overlap |-> dist2 <= r_sum * r_sum /\ penetration > 0 /\ inv_sum > 0,
        tiny |-> tiny, nx |-> nx, ny |-> ny, inv_sum |-> inv_sum,
        a |-> IF inv_ma > 0
              THEN [a EXCEPT !.x = a.x - RDiv(nx * move, Unit),
                             !.y = a.y - RDiv(ny * move, Unit)]
              ELSE a,
        b |-> IF inv_mb > 0
              THEN [b EXCEPT !.x = b.x + RDiv(nx * move, Unit),
                             !.y = b.y + RDiv(ny * move, Unit)]
              ELSE b]

\* physics_step, the overlap test and the positional correction of one pair,
\* for lengths and inverse masses counted in 1/S: whether the pair overlaps
\* (and is not skipped as both static), the normal, and the two bodies after
\* the correction
PositionalCorrection(a, b, S) ==
    LET dx0 == b.x - a.x
        dy0 == b.y - a.y
        r_sum == a.radius + b.radius
        tiny == ph_len2(dx0, dy0) <= TinyDist2(S)
        dx == IF tiny THEN TinySep(S) ELSE dx0
        dy == IF tiny THEN 0 ELSE dy0
        dist2 == ph_len2(dx, dy)
        dist == Sqrt(dist2)
        penetration == r_sum - dist
        nx == Normal(dx, dy).nx
        ny == Normal(dx, dy).ny
        inv_ma == a.inv_mass
        inv_mb == b.inv_mass
        inv_sum == inv_ma + inv_mb
        move_a == RDiv(RDiv(inv_ma * S, inv_sum) * penetration, S)
        move_b == RDiv(RDiv(inv_mb * S, inv_sum) * penetration, S)
    IN [overlap |-> dist2 <= r_sum * r_sum /\ penetration > 0 /\ inv_sum > 0,
        tiny |-> tiny, nx |-> nx, ny |-> ny, inv_sum |-> inv_sum,
        a |-> IF inv_ma > 0
              THEN [a EXCEPT !.x = a.x - RDiv(nx * move_a, Unit),
                             !.y = a.y - RDiv(ny * move_a, Unit)]
              ELSE a,
        b |-> IF inv_mb > 0
              THEN [b EXCEPT !.x = b.x + RDiv(nx * move_b, Unit),
                             !.y = b.y + RDiv(ny * move_b, Unit)]
              ELSE b]

\* avg_pop > 0.0f: whether the pop check reaches rng_next_float01 at all
PopDraws(avg_pop) == avg_pop > 0

\* rng_next_float01(rng) < avg_pop
PopDraw(r, avg_pop) == Float01Num(r) * 25 < avg_pop * 4194304

\* physics_step, the impulse along the normal for an approaching pair; c is
\* the pair after its positional correction, the velocities are still those
\* of a and b
Bounce(a, b, c, vel_norm) ==
    LET e == RDiv(a.restitution + b.restitution, 2)
        j_impulse == RDiv(FMul(-(Scale + e), vel_norm) * Scale, c.inv_sum)
        ix == RDiv(j_impulse * c.nx, Unit)
        iy == RDiv(j_impulse * c.ny, Unit)
    IN [a |-> IF a.inv_mass > 0
              THEN [c.a EXCEPT !.vx = a.vx - FMul(ix, a.inv_mass),
                               !.vy = a.vy - FMul(iy, a.inv_mass)]
              ELSE c.a,
        b |-> IF b.inv_mass > 0
              THEN [c.b EXCEPT !.vx = b.vx + FMul(ix, b.inv_mass),
                               !.vy = b.vy + FMul(iy, b.inv_mass)]
              ELSE c.b]

\* what the log keeps of a resolved pair
LogEntry(a, b, i, j, separating, avg_pop, drew, victim) ==
    [i |-> i, j |-> j, a_popped |-> a.popped, b_popped |-> b.popped,
     cooldown |-> a.spawn_cooldown + b.spawn_cooldown,
     separating |-> separating, avg_pop |-> avg_pop, drew |-> drew,
     victim |-> victim]

\* physics_step, the pop logic; v is the pair after the impulse, r1 the
\* random stream after the draw, if there was one
PopLogic(st, i, j, v, avg_pop, r1) ==
    LET a == st.bodies[i]
        b == st.bodies[j]
        draws == PopDraws(avg_pop)
        pops == draws /\ PopDraw(r1, avg_pop)
        victim == IF a.radius <= b.radius THEN i ELSE j
    IN [bodies |-> [st.bodies EXCEPT
                        ![i] = IF pops /\ victim = i
                               THEN [v.a EXCEPT !.popped = TRUE] ELSE v.a,
                        ![j] = IF pops /\ victim = j
                               THEN [v.b EXCEPT !.popped = TRUE] ELSE v.b],
        rng |-> r1,
        calls |-> IF draws THEN st.calls + 1 ELSE st.calls,
        log |-> Append(st.log,
                       LogEntry(a, b, i, j, FALSE, avg_pop, draws,
                                IF pops THEN victim ELSE 0))]

\* physics_step, what follows the positional correction c of the pair
\* (i, j): nothing more if the bodies are separating, else the impulse and
\* the pop logic
VelocityResponse(st, i, j, c, vel_norm, avg_pop) ==
    IF vel_norm > 0
    THEN [st EXCEPT !.bodies[i] = c.a, !.bodies[j] = c.b,
                    !.log = Append(st.log,
                                   LogEntry(st.bodies[i], st.bodies[j], i, j,
                                            TRUE, avg_pop, FALSE, 0))]
    ELSE PopLogic(st, i, j,
                  Bounce(st.bodies[i], st.bodies[j], c, vel_norm), avg_pop,
                  IF PopDraws(avg_pop) THEN rng_next(st.rng) ELSE st.rng)

\* physics_step, an overlapping pair (i, j) with its positional correction c
ResolveOverlap(st, i, j, c) ==
    LET a == st.bodies[i]
        b == st.bodies[j]
    IN IF ~c.overlap THEN st
       ELSE VelocityResponse(st, i, j, c,
                             RDiv((b.vx - a.vx) * c.nx, Unit)
                                 + RDiv((b.vy - a.vy) * c.ny, Unit),
                             RDiv(a.pop_chance + b.pop_chance, 2))

\* physics_step, loop 2, the body of the inner loop for the pair (i, j).
\* st = [bodies, rng, calls, log]; vis_a was computed when the outer loop
\* reached i.  A pair that reaches the positional correction is logged.
ResolvePair(st, i, j, vis_a, bnd) ==
    LET a == st.bodies[i]
        b == st.bodies[j]
    IN IF b.popped THEN st
       ELSE IF ~vis_a /\ ~body_is_visible_vertical(b, bnd) THEN st
       ELSE IF a.spawn_cooldown > 0 \/ b.spawn_cooldown > 0 THEN st
       ELSE ResolveOverlap(st, i, j, PositionalCorrection(a, b, Scale))

RECURSIVE InnerLoop(_, _, _, _, _)
InnerLoop(st, i, j, vis_a, bnd) ==
    IF j > Len(st.bodies) THEN st
    ELSE InnerLoop(ResolvePair(st, i, j, vis_a, bnd), i, j + 1, vis_a, bnd)

RECURSIVE OuterLoop(_, _, _)
OuterLoop(st, i, bnd) ==
    IF i > Len(st.bodies) THEN st
    ELSE IF st.bodies[i].popped THEN OuterLoop(st, i + 1, bnd)
    ELSE OuterLoop(InnerLoop(st, i, i + 1,
                             body_is_visible_vertical(st.bodies[i], bnd), bnd),
                   i + 1, bnd)

\* Mutant of StepReturnsEarly: dt = 0 is let through
StepReturnsEarlyStrict(dt, count) == dt < 0 \/ count = 0

\* if(dt <= 0.0f) return; if(!bodies || count == 0) return;
StepReturnsEarly(dt, count) == dt <= 0 \/ count = 0

\* physics_step(bodies, count, dt, gravity_y, bounds, rng): the bodies, the
\* random stream, the number of rng_next calls and the resolved pairs
physics_step(bs, dt, g, bnd, r) ==
    IF StepReturnsEarly(dt, Len(bs))
    THEN [bodies |-> bs, rng |-> r, calls |-> 0, log |-> <<>>]
    ELSE OuterLoop([bodies |-> Integrate(bs, dt, g, bnd), rng |-> r,
                    calls |-> 0, log |-> <<>>], 1, bnd)

(***************************************************************************)
(* Body store and lifecycle                                                *)
(***************************************************************************)
body_count == Len(bodies)

bubble_app_init_groups ==
    (0 :> [count |-> 22, radius |-> 3 * Scale, rise_speed |-> 60 * Scale,
           restitution |-> 80, pop_chance |-> 100]) @@
    (1 :> [count |-> 10, radius |-> 8 * Scale, rise_speed |-> 11 * Scale,
           restitution |-> 15, pop_chance |-> 10]) @@
    (2 :> [count |-> 4, radius |-> 16 * Scale, rise_speed |-> 4 * Scale,
           restitution |-> 5, pop_chance |-> 10])

\* Mutant of SpawnPlacement: the horizontal range forgets the radius
SpawnPlacementNoRadius(r, cfg, rs, bnd) ==
    LET r1 == rng_next(rs)
        r2 == rng_next(r1)
        r3 == rng_next(r2)
        x == bnd.min_x + MulFrac(Float01Num(r1), bnd.max_x - bnd.min_x)
        y_base == bnd.max_y + r + SpawnBaseOffset
        y == y_base + MulFrac(Float01Num(r2), SpawnExtraRange)
        jitter == FMul(MulFrac(Float01Num(r3) - 8388608, cfg.rise_speed), 20)
    IN [x |-> x, y |-> y, vx |-> jitter, vy |-> -cfg.rise_speed, rng |-> r3]

\* The placement shared by bubble_app_build_bodies, bubble_app_reinit_group
\* and bubble_respawn_body: three rng_next_float01 draws, in this order
SpawnPlacement(r, cfg, rs, bnd) ==
    LET r1 == rng_next(rs)
        r2 == rng_next(r1)
        r3 == rng_next(r2)
        x == (bnd.min_x + r) +
             MulFrac(Float01Num(r1), (bnd.max_x - r) - (bnd.min_x + r))
        y_base == bnd.max_y + r + SpawnBaseOffset
        y == y_base + MulFrac(Float01Num(r2), SpawnExtraRange)
        jitter == FMul(MulFrac(Float01Num(r3) - 8388608, cfg.rise_speed), 20)
    IN [x |-> x, y |-> y, vx |-> jitter, vy |-> -cfg.rise_speed, rng |-> r3]

\* One iteration of the creation loop of build_bodies / reinit_group
NewBody(g, cfg, rs, bnd) ==
    LET p == SpawnPlacement(cfg.radius, cfg, rs, bnd)
    IN [body |-> [x |-> p.x, y |-> p.y, vx |-> p.vx, vy |-> p.vy,
                  ax |-> 0, ay |-> 0, radius |-> cfg.radius,
                  inv_mass |-> 1 * Scale, restitution |-> cfg.restitution,
                  group |-> g, spawn_cooldown |-> SPAWN_COOLDOWN_FRAMES,
                  pop_chance |-> cfg.pop_chance, popped |-> FALSE],
        rng |-> p.rng]

\* Mutant of bubble_respawn_body: the popped flag is left set
RespawnKeepsPopped(b, grp, rs, bnd) ==
    LET cfg == grp[b.group]
        p == SpawnPlacement(b.radius, cfg, rs, bnd)
    IN [body |-> [b EXCEPT !.x = p.x, !.y = p.y, !.vx = p.vx, !.vy = p.vy,
                           !.ax = 0, !.ay = 0,
                           !.spawn_cooldown = SPAWN_COOLDOWN_FRAMES],
        rng |-> p.rng]

bubble_respawn_body(b, grp, rs, bnd) ==
    LET cfg == grp[b.group]
        p == SpawnPlacement(b.radius, cfg, rs, bnd)
    IN [body |-> [b EXCEPT !.x = p.x, !.y = p.y, !.vx = p.vx, !.vy = p.vy,
                           !.ax = 0, !.ay = 0,
                           !.spawn_cooldown = SPAWN_COOLDOWN_FRAMES,
                           !.popped = FALSE],
        rng |-> p.rng]

\* Mutant of HasRoom: off by one
HasRoomInclusive(n) == n <= MAX_BODIES

\* body_count < MAX_BODIES
HasRoom(n) == n < MAX_BODIES

\* for(i = 0; i < count && body_count < MAX_BODIES; i++): st = [bodies, rng, calls]
RECURSIVE AddBodies(_, _, _, _, _, _)
AddBodies(st, g, cfg, i, count, bnd) ==
    IF ~(i < count /\ HasRoom(Len(st.bodies))) THEN st
    ELSE LET nb == NewBody(g, cfg, st.rng, bnd)
         IN AddBodies([bodies |-> Append(st.bodies, nb.body), rng |-> nb.rng,
                       calls |-> st.calls + 3],
                      g, cfg, i + 1, count, bnd)

ClampCount(count) == IF count < 0 THEN 0 ELSE count

RECURSIVE BuildGroups(_, _, _, _)
BuildGroups(st, grp, g, bnd) ==
    IF g >= GROUP_COUNT THEN st
    ELSE BuildGroups(AddBodies(st, g, grp[g], 0, ClampCount(grp[g].count), bnd),
                     grp, g + 1, bnd)

bubble_app_build_bodies(grp, rs, bnd) ==
    BuildGroups([bodies |-> <<>>, rng |-> rs, calls |-> 0], grp, 0, bnd)

\* Mutant of CompactLoop: the kept bodies are counted but never copied down
CompactNoCopy(arr, i, write, group_id) ==
    SubSeq(arr, 1, Cardinality({k \in 1..Len(arr) : arr[k].group # group_id}))

\* The compaction loop of bubble_app_reinit_group: arr is the array, i the
\* read index, write the write index (both 0-based as in the source)
RECURSIVE CompactLoop(_, _, _, _)
CompactLoop(arr, i, write, group_id) ==
    IF i >= Len(arr) THEN SubSeq(arr, 1, write)
    ELSE IF arr[i + 1].group = group_id
         THEN CompactLoop(arr, i + 1, write, group_id)
    ELSE CompactLoop(IF write # i THEN [arr EXCEPT ![write + 1] = arr[i + 1]]
                                  ELSE arr,
                     i + 1, write + 1, group_id)

bubble_app_reinit_group(bs, grp, rs, group_id, bnd) ==
    IF group_id < 0 \/ group_id >= GROUP_COUNT
    THEN [bodies |-> bs, rng |-> rs, calls |-> 0]
    ELSE AddBodies([bodies |-> CompactLoop(bs, 0, 0, group_id), rng |-> rs,
                    calls |-> 0],
                   group_id, grp[group_id], 0,
                   ClampCount(grp[group_id].count), bnd)

\* The run loop's first pass: respawn every popped body, in index order.
\* st = [bodies, rng, calls, hit]; hit collects the indices respawned
RECURSIVE RespawnPoppedLoop(_, _, _, _)
RespawnPoppedLoop(st, i, grp, bnd) ==
    IF i > Len(st.bodies) THEN st
    ELSE IF st.bodies[i].popped
         THEN LET rb == bubble_respawn_body(st.bodies[i], grp, st.rng, bnd)
              IN RespawnPoppedLoop(
                     [bodies |-> [st.bodies EXCEPT ![i] = rb.body],
                      rng |-> rb.rng, calls |-> st.calls + 3,
                      hit |-> st.hit \cup {i}], i + 1, grp, bnd)
    ELSE RespawnPoppedLoop(st, i + 1, grp, bnd)

\* Mutant of IsOffTop: the bottom edge is taken a diameter below the centre
IsOffTopByDiameter(b, bnd) ==
    b.y + 2 * b.radius < bnd.min_y - OffTopMargin

\* b->y + b->radius < app->bounds.min_y - 20.0f
IsOffTop(b, bnd) == b.y + b.radius < bnd.min_y - OffTopMargin

\* The run loop's second pass: respawn every body that floated off the top
RECURSIVE RespawnOffTopLoop(_, _, _, _)
RespawnOffTopLoop(st, i, grp, bnd) ==
    IF i > Len(st.bodies) THEN st
    ELSE IF IsOffTop(st.bodies[i], bnd)
         THEN LET rb == bubble_respawn_body(st.bodies[i], grp, st.rng, bnd)
              IN RespawnOffTopLoop(
                     [bodies |-> [st.bodies EXCEPT ![i] = rb.body],
                      rng |-> rb.rng, calls |-> st.calls + 3,
                      hit |-> st.hit \cup {i}], i + 1, grp, bnd)
    ELSE RespawnOffTopLoop(st, i + 1, grp, bnd)

(***************************************************************************)
(* Input handling                                                          *)
(***************************************************************************)
\* Mutant of Clamp: the lower limit is not enforced
ClampUpper(v, lo, hi) == IF v > hi THEN hi ELSE v

\* if(v < lo) v = lo; if(v > hi) v = hi;
Clamp(v, lo, hi) == IF v < lo THEN lo ELSE IF v > hi THEN hi ELSE v

\* bubble_adjust_field's change to the selected group's config; dir is +1/-1
AdjustConfig(cfg, field, dir) ==
    IF field = ConfigFieldCount
    THEN [cfg EXCEPT !.count = Clamp(cfg.count + dir, 0, BUBBLE_MAX_COUNT)]
    ELSE IF field = ConfigFieldRadius
    THEN [cfg EXCEPT !.radius = Clamp(cfg.radius + dir * 25,
                                      BUBBLE_MIN_RADIUS, BUBBLE_MAX_RADIUS)]
    ELSE IF field = ConfigFieldSpeed
    THEN [cfg EXCEPT !.rise_speed = Clamp(cfg.rise_speed + dir * Scale,
                                          BUBBLE_MIN_SPEED, BUBBLE_MAX_SPEED)]
    ELSE IF field = ConfigFieldRestitution
    THEN [cfg EXCEPT !.restitution = Clamp(cfg.restitution + dir,
                                           BUBBLE_MIN_RESTITUTION,
                                           BUBBLE_MAX_RESTITUTION)]
    ELSE IF field = ConfigFieldPopChance
    THEN [cfg EXCEPT !.pop_chance = Clamp(cfg.pop_chance + dir,
                                          BUBBLE_MIN_POP, BUBBLE_MAX_POP)]
    ELSE cfg

\* bubble_adjust_field: adjust, then bubble_save_and_reinit (the saved file
\* is not part of the state).  Result: [groups, bodies, rng, calls]
bubble_adjust_field(bs, grp, sel, field, rs, dir, bnd) ==
    LET grp1 == [grp EXCEPT ![sel] = AdjustConfig(grp[sel], field, dir)]
        re == IF field < ConfigFieldCountEnum
              THEN bubble_app_reinit_group(bs, grp1, rs, sel, bnd)
              ELSE [bodies |-> bs, rng |-> rs, calls |-> 0]
    IN [groups |-> grp1, bodies |-> re.bodies, rng |-> re.rng,
        calls |-> re.calls]

(***************************************************************************)
(* Inputs of a run: the seed furi_get_tick() returns and the configuration *)
(* file bubble_load_config finds.  Each specification below starts from a  *)
(* table of such runs.                                                     *)
(***************************************************************************)
MaxTicks == 32
MaxInputs == 1
IdleTicks == 72
StoreTicks == 1
StoreCalls == 2
StepCalls == 26
RespawnTicks == 2
RespawnCalls == 2
AdjustCalls == 3

Group(c, r, s, e, p) ==
    [count |-> c, radius |-> r, rise_speed |-> s, restitution |-> e,
     pop_chance |-> p]

Config(g0, g1, g2) == (0 :> g0) @@ (1 :> g1) @@ (2 :> g2)

Run(seed, cfg) == [seed |-> [hi |-> 0, lo |-> seed], groups |-> cfg]

\* three large bubbles that always pop
ThreeLarge == Config(Group(3, 3200, 6400, 80, 100), Group(0, 800, 1100, 15, 10),
                     Group(0, 1600, 400, 5, 10))
\* two large bubbles that never pop, two medium ones that always do
Mixed == Config(Group(2, 3200, 6400, 80, 0), Group(2, 1600, 6400, 15, 100),
                Group(0, 1600, 400, 5, 10))
\* the spec's scenario body: one bubble of radius 5
OneSmall == Config(Group(1, 500, 6400, 80, 100), Group(0, 800, 1100, 15, 10),
                   Group(0, 1600, 400, 5, 10))
\* two large bubbles that always pop
TwoLarge == Config(Group(2, 3200, 6400, 80, 100), Group(0, 800, 1100, 15, 10),
                   Group(0, 1600, 400, 5, 10))
\* no bubbles at all
Empty == Config(Group(0, 300, 6000, 80, 100), Group(0, 800, 1100, 15, 10),
                Group(0, 1600, 400, 5, 10))
\* every count at its maximum
Full == Config(Group(64, 300, 6000, 80, 100), Group(64, 800, 1100, 15, 10),
               Group(64, 1600, 400, 5, 10))
\* one short of the capacity, in two groups
NearFull == Config(Group(40, 300, 6000, 80, 100), Group(7, 800, 1100, 15, 10),
                   Group(0, 1600, 400, 5, 10))
\* a bubble as wide as the arena
Wide == Config(Group(1, 6350, 6400, 80, 100), Group(2, 100, 25, 0, 0),
               Group(1, 1600, 400, 5, 10))

AppRuns == <<Run(203, ThreeLarge), Run(3, Mixed)>>
IdleRuns == <<Run(226, OneSmall), Run(6, TwoLarge)>>
StoreRuns == <<Run(0, bubble_app_init_groups), Run(1, Full),
               Run(2, NearFull)>>
StepRuns == <<Run(203, ThreeLarge), Run(1, Empty)>>
\* every value of group 0 at its upper limit, of group 1 at its lower limit
\* (rise speed one step above it), of group 2 one step inside the limits:
\* configurations that adjustments of the defaults reach and save
NearLimits == Config(Group(64, 3200, 6400, 100, 100), Group(0, 100, 100, 0, 0),
                     Group(63, 3175, 6300, 99, 1))

RespawnRuns == <<Run(3, Wide), Run(5, Mixed)>>
AdjustRuns == <<Run(0, bubble_app_init_groups), Run(1, NearLimits)>>

Keys == {"Up", "Down", "Left", "Right", "Ok", "Back"}
Types == {"Short", "Repeat", "Long", "Press"}
StepDts == {-LoopDt, 0, LoopDt}
StoreKeys == {"Left", "Right", "Ok"}

\* What the current loop iteration has done so far: the last step (op), the
\* bodies and random stream before it, the pairs the iteration's
\* physics_step resolved and its dt, the bodies its two respawn passes
\* respawned, the bodies the last step respawned, the group a rebuild was
\* asked for, and the configurations before the step
NoGroup == -9
NoLast == [op |-> "init", before |-> <<>>, rng |-> [hi |-> 0, lo |-> 0],
           log |-> <<>>, popped |-> {}, offtop |-> {}, respawned |-> {},
           dt |-> 0, group |-> NoGroup, groups |-> <<>>]

(***************************************************************************)
(* bubble_sim_app                                                          *)
(***************************************************************************)
\* Construction up to the first loop iteration
Construct(run) ==
    LET built == bubble_app_build_bodies(run.groups,
                                         rng_init(run.seed.hi, run.seed.lo),
                                         bounds)
    IN /\ groups = run.groups
       /\ bodies = built.bodies
       /\ rng = built.rng
       /\ rng_calls = built.calls
       /\ selected_group = 0
       /\ menu_field = ConfigFieldCount
       /\ hud_visible = TRUE
       /\ running = TRUE
       /\ pc = "loop"
       /\ ticks = 0
       /\ inputs = 0
       /\ last = NoLast

Init == \E k \in 1..Len(AppRuns) : Construct(AppRuns[k])

Step(op) == [NoLast EXCEPT !.op = op, !.before = bodies, !.rng = rng,
                           !.groups = groups]

\* bubble_handle_input for one dequeued event
HandleInput(type, key, limit) ==
    /\ pc = "loop"
    /\ running
    /\ inputs < limit
    /\ inputs' = inputs + 1
    /\ pc' = "physics"
    /\ ticks' = ticks
    /\ IF type = "Long" /\ key = "Ok"
       THEN /\ hud_visible' = ~hud_visible
            /\ last' = Step("input")
            /\ UNCHANGED <<bodies, groups, selected_group, menu_field, rng,
                           running, rng_calls>>
       ELSE IF ~(type = "Short" \/ type = "Repeat")
       THEN /\ last' = Step("input")
            /\ UNCHANGED <<bodies, groups, selected_group, menu_field,
                           hud_visible, rng, running, rng_calls>>
       ELSE IF key = "Back"
       THEN /\ running' = FALSE
            /\ last' = Step("input")
            /\ UNCHANGED <<bodies, groups, selected_group, menu_field,
                           hud_visible, rng, rng_calls>>
       ELSE IF key = "Up"
       THEN /\ menu_field' = IF menu_field = 0 THEN ConfigFieldCountEnum - 1
                                               ELSE menu_field - 1
            /\ last' = Step("input")
            /\ UNCHANGED <<bodies, groups, selected_group, hud_visible, rng,
                           running, rng_calls>>
       ELSE IF key = "Down"
       THEN /\ menu_field' = IF menu_field + 1 >= ConfigFieldCountEnum
                             THEN ConfigFieldCount ELSE menu_field + 1
            /\ last' = Step("input")
            /\ UNCHANGED <<bodies, groups, selected_group, hud_visible, rng,
                           running, rng_calls>>
       ELSE IF key = "Ok"
       THEN /\ selected_group' = IF selected_group + 1 >= GROUP_COUNT
                                 THEN 0 ELSE selected_group + 1
            /\ last' = Step("input")
            /\ UNCHANGED <<bodies, groups, menu_field, hud_visible, rng,
                           running, rng_calls>>
       ELSE LET dir == IF key = "Left" THEN -1 ELSE 1
                adj == bubble_adjust_field(bodies, groups, selected_group,
                                           menu_field, rng, dir, bounds)
            IN /\ groups' = adj.groups
               /\ bodies' = adj.bodies
               /\ rng' = adj.rng
               /\ rng_calls' = rng_calls + adj.calls
               /\ last' = [Step("adjust") EXCEPT !.group = selected_group]
               /\ UNCHANGED <<selected_group, menu_field, hud_visible, running>>

\* physics_step(app->bodies, app->body_count, dt, app->gravity_y,
\*              &app->bounds, &app->rng), reached with or without an event
PhysicsStep(dt, limit) ==
    /\ pc = "physics" \/ (pc = "loop" /\ running)
    /\ ticks < limit
    /\ LET res == physics_step(bodies, dt, gravity_y, bounds, rng)
       IN /\ bodies' = res.bodies
          /\ rng' = res.rng
          /\ rng_calls' = rng_calls + res.calls
          /\ last' = [Step("physics") EXCEPT !.log = res.log, !.dt = dt]
    /\ ticks' = ticks + 1
    /\ pc' = "popped"
    /\ UNCHANGED <<groups, selected_group, menu_field, hud_visible, running,
                   inputs>>

\* for(i...) if(b->popped) bubble_respawn_body(app, b)
RespawnPopped ==
    /\ pc = "popped"
    /\ LET res == RespawnPoppedLoop([bodies |-> bodies, rng |-> rng,
                                     calls |-> 0, hit |-> {}], 1, groups, bounds)
       IN /\ bodies' = res.bodies
          /\ rng' = res.rng
          /\ rng_calls' = rng_calls + res.calls
          /\ last' = [last EXCEPT !.op = "popped", !.before = bodies,
                                  !.rng = rng, !.popped = res.hit,
                                  !.respawned = res.hit]
    /\ pc' = "offtop"
    /\ UNCHANGED <<groups, selected_group, menu_field, hud_visible, running,
                   ticks, inputs>>

\* for(i...) if(b->y + b->radius < min_y - 20) bubble_respawn_body(app, b),
\* then the loop's test of `running`
RespawnOffTop ==
    /\ pc = "offtop"
    /\ LET res == RespawnOffTopLoop([bodies |-> bodies, rng |-> rng,
                                     calls |-> 0, hit |-> {}], 1, groups, bounds)
       IN /\ bodies' = res.bodies
          /\ rng' = res.rng
          /\ rng_calls' = rng_calls + res.calls
          /\ last' = [last EXCEPT !.op = "offtop", !.before = bodies,
                                  !.rng = rng, !.offtop = res.hit,
                                  !.respawned = res.hit]
    /\ pc' = IF running THEN "loop" ELSE "done"
    /\ UNCHANGED <<groups, selected_group, menu_field, hud_visible, running,
                   ticks, inputs>>

Input == \E type \in Types, key \in Keys : HandleInput(type, key, MaxInputs)

Tick == PhysicsStep(LoopDt, MaxTicks)

Next == Input \/ Tick \/ RespawnPopped \/ RespawnOffTop

\* The application, with the user pressing at most MaxInputs keys
Spec == Init /\ [][Next]_vars

(***************************************************************************)
(* The application left alone: no key is pressed                           *)
(***************************************************************************)
InitIdle == \E k \in 1..Len(IdleRuns) : Construct(IdleRuns[k])

IdleTick == PhysicsStep(LoopDt, IdleTicks)

NextIdle == IdleTick \/ RespawnPopped \/ RespawnOffTop

SpecIdle == InitIdle /\ [][NextIdle]_vars

(***************************************************************************)
(* The body store driven directly: besides the application's own steps,    *)
(* bubble_app_build_bodies and bubble_app_reinit_group (any group id) are  *)
(* called between loop iterations; the keys pressed select a group and     *)
(* adjust its count                                                        *)
(***************************************************************************)
InitStore == \E k \in 1..Len(StoreRuns) : Construct(StoreRuns[k])

StoreInput == \E key \in StoreKeys : HandleInput("Short", key, StoreCalls)

StoreBuild ==
    /\ pc = "loop"
    /\ inputs < StoreCalls
    /\ LET res == bubble_app_build_bodies(groups, rng, bounds)
       IN /\ bodies' = res.bodies
          /\ rng' = res.rng
          /\ rng_calls' = rng_calls + res.calls
    /\ last' = Step("build")
    /\ inputs' = inputs + 1
    /\ UNCHANGED <<groups, selected_group, menu_field, hud_visible, running,
                   pc, ticks>>

StoreReinit ==
    \E group_id \in -1..GROUP_COUNT :
        /\ pc = "loop"
        /\ inputs < StoreCalls
        /\ LET res == bubble_app_reinit_group(bodies, groups, rng, group_id,
                                              bounds)
           IN /\ bodies' = res.bodies
              /\ rng' = res.rng
              /\ rng_calls' = rng_calls + res.calls
        /\ last' = [Step("reinit") EXCEPT !.group = group_id]
        /\ inputs' = inputs + 1
        /\ UNCHANGED <<groups, selected_group, menu_field, hud_visible,
                       running, pc, ticks>>

StoreTick == PhysicsStep(LoopDt, StoreTicks)

NextStore ==
    \/ StoreInput
    \/ StoreBuild
    \/ StoreReinit
    \/ StoreTick
    \/ RespawnPopped
    \/ RespawnOffTop

SpecStore == InitStore /\ [][NextStore]_vars

(***************************************************************************)
(* physics_step driven directly: called with any dt of StepDts             *)
(***************************************************************************)
InitStep == \E k \in 1..Len(StepRuns) : Construct(StepRuns[k])

StepCall == \E dt \in StepDts : PhysicsStep(dt, StepCalls)

NextStep == StepCall \/ RespawnPopped \/ RespawnOffTop

SpecStep == InitStep /\ [][NextStep]_vars

(***************************************************************************)
(* bubble_respawn_body driven directly: called on any body between loop    *)
(* iterations                                                              *)
(***************************************************************************)
InitRespawn == \E k \in 1..Len(RespawnRuns) : Construct(RespawnRuns[k])

RespawnCall ==
    \E i \in 1..Len(bodies) :
        /\ pc = "loop"
        /\ inputs < RespawnCalls
        /\ LET rb == bubble_respawn_body(bodies[i], groups, rng, bounds)
           IN /\ bodies' = [bodies EXCEPT ![i] = rb.body]
              /\ rng' = rb.rng
              /\ rng_calls' = rng_calls + 3
        /\ last' = [Step("respawn") EXCEPT !.respawned = {i}]
        /\ inputs' = inputs + 1
        /\ UNCHANGED <<groups, selected_group, menu_field, hud_visible,
                       running, pc, ticks>>

RespawnTick == PhysicsStep(LoopDt, RespawnTicks)

NextRespawn == RespawnCall \/ RespawnTick \/ RespawnPopped \/ RespawnOffTop

SpecRespawn == InitRespawn /\ [][NextRespawn]_vars

(***************************************************************************)
(* bubble_adjust_field called directly, with any group and any field       *)
(* selected.                                                               *)
(***************************************************************************)
InitAdjust ==
    \E k \in 1..Len(AdjustRuns), sel \in 0..(GROUP_COUNT - 1),
       field \in ConfigFieldCount..(ConfigFieldCountEnum - 1) :
        LET run == AdjustRuns[k]
            built == bubble_app_build_bodies(run.groups,
                                             rng_init(run.seed.hi, run.seed.lo),
                                             bounds)
        IN /\ groups = run.groups
           /\ bodies = built.bodies
           /\ rng = built.rng
           /\ rng_calls = built.calls
           /\ selected_group = sel
           /\ menu_field = field
           /\ hud_visible = TRUE
           /\ running = TRUE
           /\ pc = "loop"
           /\ ticks = 0
           /\ inputs = 0
           /\ last = NoLast

AdjustCall ==
    \E dir \in {-1, 1} :
        /\ pc = "loop"
        /\ inputs < AdjustCalls
        /\ LET adj == bubble_adjust_field(bodies, groups, selected_group,
                                          menu_field, rng, dir, bounds)
           IN /\ groups' = adj.groups
              /\ bodies' = adj.bodies
              /\ rng' = adj.rng
              /\ rng_calls' = rng_calls + adj.calls
        /\ last' = [Step("adjust") EXCEPT !.group = selected_group]
        /\ inputs' = inputs + 1
        /\ UNCHANGED <<selected_group, menu_field, hud_visible, running, pc,
                       ticks>>

NextAdjust == AdjustCall

SpecAdjust == InitAdjust /\ [][NextAdjust]_vars

(***************************************************************************)
(* The positional correction of one pair, on pairs placed by hand.  The    *)
(* two bodies are held at 1/FineScale, fine enough for the 0.001 that the  *)
(* code substitutes for a near-zero distance.                              *)
(***************************************************************************)
FineScale == 10000

PairBody(x, y, r, im) ==
    [x |-> x, y |-> y, vx |-> 0, vy |-> 0, ax |-> 0, ay |-> 0, radius |-> r,
     inv_mass |-> im, restitution |-> 0, group |-> 0, spawn_cooldown |-> 0,
     pop_chance |-> 0, popped |-> FALSE]

\* offsets of the second centre from the first, radii and inverse masses
PairDx == {-30, -3, 0, 3, 30, 32, 5000, 14142, 19990, 20010}
PairDy == {-7000, -20, 0, 10, 14142}
PairRadius == {FineScale \div 2, FineScale}
PairInvMass == {<<FineScale, FineScale>>, <<0, FineScale>>, <<FineScale, 0>>,
                <<FineScale, 2 * FineScale>>, <<0, 0>>}

InitPair ==
    \E dx \in PairDx, dy \in PairDy, r \in PairRadius, im \in PairInvMass :
        /\ bodies = <<PairBody(64 * FineScale, 30 * FineScale, FineScale, im[1]),
                      PairBody(64 * FineScale + dx, 30 * FineScale + dy, r,
                               im[2])>>
        /\ groups = bubble_app_init_groups
        /\ rng = rng_init(0, 1)
        /\ rng_calls = 0
        /\ selected_group = 0
        /\ menu_field = ConfigFieldCount
        /\ hud_visible = TRUE
        /\ running = TRUE
        /\ pc = "loop"
        /\ ticks = 0
        /\ inputs = 0
        /\ last = NoLast

\* the inner loop's overlap test and positional correction for the pair
PairCorrect ==
    /\ pc = "loop"
    /\ LET c == PositionalCorrection(bodies[1], bodies[2], FineScale)
       IN bodies' = IF c.overlap THEN <<c.a, c.b>> ELSE bodies
    /\ last' = Step("correct")
    /\ pc' = "done"
    /\ ticks' = ticks + 1
    /\ UNCHANGED <<groups, selected_group, menu_field, hud_visible, rng,
                   running, inputs, rng_calls>>

NextPair == PairCorrect

SpecPair == InitPair /\ [][NextPair]_vars

(***************************************************************************)
(* Properties                                                              *)
(***************************************************************************)
RECURSIVE RngAdvance(_, _)
RngAdvance(r, n) == IF n = 0 THEN r ELSE RngAdvance(rng_next(r), n - 1)

Min(a, b) == IF a < b THEN a ELSE b

LogIndex == 1..Len(last.log)

ValidGroup(g) == g >= 0 /\ g < GROUP_COUNT

Others(bs, g) == SelectSeq(bs, LAMBDA b : b.group # g)

GroupSize(bs, g) == Cardinality({k \in 1..Len(bs) : bs[k].group = g})

Rebuilt == last.op = "reinit" \/ last.op = "adjust"

\* C1: whenever physics_step is about to be called (the loop is at its top
\* or has just handled an event), no body of the store is flagged popped.
C1_NoPoppedAtStepStart ==
    (pc = "loop" \/ pc = "physics") =>
        \A k \in 1..Len(bodies) : ~bodies[k].popped

\* A loop iteration in which the collision pass popped a body has completed.
C1_Witness ==
    /\ pc = "loop"
    /\ last.op = "offtop"
    /\ last.popped # {}
    /\ \A k \in 1..Len(bodies) : ~bodies[k].popped

\* C2: no pair resolved by a collision pass (positional correction and what
\* follows it) contains a body that was already popped when the pair was
\* reached.
C2_PoppedPairsSkipped ==
    last.op = "physics" =>
        \A k \in LogIndex : ~last.log[k].a_popped /\ ~last.log[k].b_popped

\* C3: a tick advances the random stream exactly once for every pair its
\* collision pass resolves (a pair that passed the eliminated, visibility
\* and cooldown skips with positive penetration), whatever the pop chances
\* of the pair and whether its bodies approach or separate.
C3_OneDrawPerCollidingPair ==
    last.op = "physics" => rng = RngAdvance(last.rng, Len(last.log))

\* C4: a body whose spawn_cooldown is > 0 when a tick starts is in no pair
\* that the tick's collision pass resolves.
C4_CooldownBodiesUntouched ==
    last.op = "physics" =>
        \A k \in LogIndex :
            /\ last.before[last.log[k].i].spawn_cooldown = 0
            /\ last.before[last.log[k].j].spawn_cooldown = 0

\* C5: of every two non-eliminated, cooldown-free bodies with pop chance 1.0
\* that overlap when the collision pass starts (one of them visible), the
\* pass flags the one with the smaller radius (the first on a tie) and does
\* not flag the other.
C5_PopFairness ==
    last.op = "physics" /\ last.dt > 0 =>
        LET B == last.before
            P == Integrate(B, last.dt, gravity_y, bounds)
        IN \A i \in 1..Len(B) : \A j \in (i + 1)..Len(B) :
               ( /\ ~B[i].popped /\ ~B[j].popped
                 /\ B[i].spawn_cooldown = 0 /\ B[j].spawn_cooldown = 0
                 /\ B[i].pop_chance = BUBBLE_MAX_POP
                 /\ B[j].pop_chance = BUBBLE_MAX_POP
                 /\ \/ body_is_visible_vertical(P[i], bounds)
                    \/ body_is_visible_vertical(P[j], bounds)
                 /\ ph_len2(P[j].x - P[i].x, P[j].y - P[i].y) <
                        (P[i].radius + P[j].radius) * (P[i].radius + P[j].radius) )
               => IF B[i].radius <= B[j].radius
                  THEN bodies[i].popped /\ ~bodies[j].popped
                  ELSE bodies[j].popped /\ ~bodies[i].popped

\* C6 as claimed: the off-top pass leaves at y >= max_y every body whose
\* bottom edge was 20 or more above min_y.
C6_AtMarginRespawned ==
    last.op = "offtop" =>
        \A k \in 1..Len(bodies) :
            last.before[k].y + last.before[k].radius <= bounds.min_y - OffTopMargin
                => bodies[k].y >= bounds.max_y

\* C6 as amended: the off-top pass leaves at y >= max_y every body whose
\* bottom edge was more than 20 above min_y, and leaves a body whose bottom
\* edge was exactly 20 above min_y where it is.
C6_BeyondMarginRespawned ==
    last.op = "offtop" =>
        \A k \in 1..Len(bodies) :
            /\ last.before[k].y + last.before[k].radius < bounds.min_y - OffTopMargin
                   => bodies[k].y >= bounds.max_y
            /\ last.before[k].y + last.before[k].radius = bounds.min_y - OffTopMargin
                   => bodies[k] = last.before[k]

\* The off-top pass has respawned a body.
C6_Witness ==
    /\ last.op = "offtop"
    /\ \E k \in last.offtop :
           /\ last.before[k].y + last.before[k].radius < bounds.min_y - OffTopMargin
           /\ bodies[k].y >= bounds.max_y

\* C7: after bubble_app_reinit_group(g), the bodies of the other groups are
\* the bodies of the other groups before the call, field for field and in
\* the same order; an out-of-range g leaves the store and the random stream
\* as they were.
C7_ReinitKeepsOtherGroups ==
    Rebuilt =>
        IF ValidGroup(last.group)
        THEN Others(bodies, last.group) = Others(last.before, last.group)
        ELSE bodies = last.before /\ rng = last.rng

\* A rebuild that had to move bodies of other groups down the array.
C7_Witness ==
    /\ last.op = "reinit"
    /\ ValidGroup(last.group)
    /\ \E a \in 1..Len(last.before) : \E b \in (a + 1)..Len(last.before) :
           /\ last.before[a].group = last.group
           /\ last.before[b].group # last.group
    /\ GroupSize(bodies, last.group) > 0

\* C8: the store never holds more than MAX_BODIES bodies; a rebuild of
\* group g leaves min(count_g, MAX_BODIES - bodies of the other groups)
\* bodies of g, and a full build min(sum of the counts, MAX_BODIES) bodies.
C8_CapacityRespected ==
    /\ Len(bodies) <= MAX_BODIES
    /\ (Rebuilt /\ ValidGroup(last.group)) =>
           GroupSize(bodies, last.group) =
               Min(groups[last.group].count,
                   MAX_BODIES - Len(Others(last.before, last.group)))
    /\ last.op = "build" =>
           Len(bodies) = Min(groups[0].count + groups[1].count + groups[2].count,
                             MAX_BODIES)

\* A rebuild whose group asked for more bodies than the store had room for.
C8_Witness ==
    /\ Rebuilt
    /\ ValidGroup(last.group)
    /\ Len(Others(last.before, last.group)) > 0
    /\ groups[last.group].count >
           MAX_BODIES - Len(Others(last.before, last.group))
    /\ Len(bodies) = MAX_BODIES

\* C9: a physics_step call with dt <= 0 or with no bodies changes no body,
\* resolves no pair and leaves the random stream where it was.
C9_StepNoOp ==
    (last.op = "physics" /\ (last.dt <= 0 \/ Len(last.before) = 0)) =>
        /\ bodies = last.before
        /\ rng = last.rng
        /\ last.log = <<>>

\* A call with dt <= 0 on bodies that a call with the loop's dt would have
\* made collide.
C9_Witness ==
    /\ last.op = "physics"
    /\ last.dt <= 0
    /\ physics_step(bodies, LoopDt, gravity_y, bounds, rng).log # <<>>

\* C10: every body just respawned whose diameter fits the arena lies at
\* y >= max_y + r + 40 and min_x + r <= x <= max_x - r, rises at its
\* group's rise speed, has cooldown 10 and is not popped; each respawn
\* advanced the random stream by three values.
C10_RespawnPlacement ==
    (last.op = "respawn" \/ last.op = "popped" \/ last.op = "offtop") =>
        /\ \A k \in last.respawned :
               LET b == bodies[k]
               IN 2 * b.radius <= bounds.max_x - bounds.min_x =>
                      /\ b.y >= bounds.max_y + b.radius + SpawnBaseOffset
                      /\ bounds.min_x + b.radius <= b.x
                      /\ b.x <= bounds.max_x - b.radius
                      /\ b.vy = -groups[b.group].rise_speed
                      /\ b.spawn_cooldown = SPAWN_COOLDOWN_FRAMES
                      /\ ~b.popped
        /\ rng = RngAdvance(last.rng, 3 * Cardinality(last.respawned))

\* A respawn of a body exactly as wide as the arena.
C10_Witness ==
    /\ last.op = "respawn"
    /\ \E k \in last.respawned :
           /\ 2 * bodies[k].radius = bounds.max_x - bounds.min_x
           /\ bodies[k] # last.before[k]

\* Centre distance of two bodies, and what a pair correction had to do
CentreDist(a, b) == Sqrt(ph_len2(b.x - a.x, b.y - a.y))

PairOverlaps(a, b) ==
    /\ ph_len2(b.x - a.x, b.y - a.y) < (a.radius + b.radius) * (a.radius + b.radius)
    /\ a.inv_mass + b.inv_mass > 0

PairDegenerate(a, b) == ph_len2(b.x - a.x, b.y - a.y) <= TinyDist2(FineScale)

\* the rounding of the fixed-point arithmetic: half of the 0.001
PairTol == TinySep(FineScale) \div 2

\* C11 as claimed: two overlapping bodies with combined inverse mass > 0
\* are, after the correction, at least the sum of their radii apart (up to
\* rounding), coincident centres included; a body of inverse mass 0 is not
\* moved.
C11_CorrectionExact ==
    last.op = "correct" =>
        LET a == last.before[1]
            b == last.before[2]
        IN PairOverlaps(a, b) =>
               /\ CentreDist(bodies[1], bodies[2]) >= a.radius + b.radius - PairTol
               /\ a.inv_mass = 0 => bodies[1] = a
               /\ b.inv_mass = 0 => bodies[2] = b

\* C11 as amended: the same for every pair whose centres are more than
\* sqrt(0.00001) apart; a pair closer than that is pushed apart along +x by
\* the sum of the radii less 0.001, so it ends at least the sum of the radii
\* less 0.001 and less its original distance apart.
C11_CorrectionExactUnlessDegenerate ==
    last.op = "correct" =>
        LET a == last.before[1]
            b == last.before[2]
        IN PairOverlaps(a, b) =>
               /\ ~PairDegenerate(a, b) =>
                      CentreDist(bodies[1], bodies[2]) >=
                          a.radius + b.radius - PairTol
               /\ PairDegenerate(a, b) =>
                      CentreDist(bodies[1], bodies[2]) >=
                          a.radius + b.radius - TinySep(FineScale)
                              - CentreDist(a, b) - PairTol
               /\ a.inv_mass = 0 => bodies[1] = a
               /\ b.inv_mass = 0 => bodies[2] = b

\* A corrected pair with one static body, and deep overlap.
C11_Witness ==
    /\ last.op = "correct"
    /\ PairOverlaps(last.before[1], last.before[2])
    /\ ~PairDegenerate(last.before[1], last.before[2])
    /\ last.before[1].inv_mass = 0
    /\ bodies[2] # last.before[2]
    /\ CentreDist(last.before[1], last.before[2]) * 2 <
           last.before[1].radius + last.before[2].radius

ConfigInBounds(cfg) ==
    /\ 0 <= cfg.count /\ cfg.count <= BUBBLE_MAX_COUNT
    /\ BUBBLE_MIN_RADIUS <= cfg.radius /\ cfg.radius <= BUBBLE_MAX_RADIUS
    /\ BUBBLE_MIN_SPEED <= cfg.rise_speed /\ cfg.rise_speed <= BUBBLE_MAX_SPEED
    /\ BUBBLE_MIN_RESTITUTION <= cfg.restitution
    /\ cfg.restitution <= BUBBLE_MAX_RESTITUTION
    /\ BUBBLE_MIN_POP <= cfg.pop_chance /\ cfg.pop_chance <= BUBBLE_MAX_POP

\* C12: from the default configuration, and from the configurations that
\* adjustments of it reach, every bubble_adjust_field call leaves every
\* group's count, radius, rise speed, restitution and pop chance within
\* their declared bounds.
C12_ConfigStaysInBounds ==
    \A g \in 0..(GROUP_COUNT - 1) : ConfigInBounds(groups[g])

\* An adjustment that the lower limit of the rise speed cut short: 1.0 less
\* one step is 0.0, stored as 0.25.
C12_Witness ==
    /\ last.op = "adjust"
    /\ menu_field = ConfigFieldSpeed
    /\ last.groups[last.group].rise_speed > BUBBLE_MIN_SPEED
    /\ last.groups[last.group].rise_speed - Scale < BUBBLE_MIN_SPEED
    /\ groups[last.group].rise_speed = BUBBLE_MIN_SPEED

\* C13: at the end of every physics_step call with dt > 0, every body whose
\* diameter fits the arena lies between the walls:
\* min_x + radius <= x <= max_x - radius.
C13_HorizontallyConfined ==
    (last.op = "physics" /\ last.dt > 0) =>
        \A k \in 1..Len(bodies) :
            2 * bodies[k].radius <= bounds.max_x - bounds.min_x =>
                /\ bounds.min_x + bodies[k].radius <= bodies[k].x
                /\ bodies[k].x <= bounds.max_x - bodies[k].radius

====
